---- MODULE Spec2Model ----
(***************************************************************************)
(* A model of src/src/generate_site.py: the Gmail digest generator.        *)
(*                                                                         *)
(* Texts are sequences of Unicode code points (natural numbers), bytes are *)
(* naturals below 256.  A function call that can raise is modelled by a    *)
(* record [tag, val]: tag = "return" carries the returned value, any other *)
(* tag is the name of the exception that escapes.                          *)
(***************************************************************************)
EXTENDS Integers, Sequences, FiniteSets, TLC

VARIABLES
    pc,             \* control position of the procedure being modelled
    built,          \* the Parts of a message under assembly, as a forest
    arg,            \* argument of the function applied (pure-function specifications)
    ret,            \* outcome of the function applied
    \* main(): its locals
    enable_images,  \* ENABLE_IMAGE_GEN == "1"
    message_ids,    \* the ids listed so far by list_messages
    idx,            \* position in message_ids of the message being processed
    raw_text,       \* normalized extracted text of that message
    translated_text,
    summary_zh_tw,
    entries,        \* the records appended so far
    \* the filesystem
    files,          \* ids whose public/images/{id}.png exists
    written,        \* output files written by this run
    latest_count,   \* "count" of data/latest.json
    \* history of the run, for the properties
    run,            \* number of the run (process) under way
    pages,          \* list_messages: turns of its paging loop so far
    last_call,      \* the latest collaborator call: [api, status]
    text_calls,     \* per position: text-generation calls of this run
    image_calls_at, \* per position: image-generation calls of this run
    empty_at,       \* positions whose normalized text was empty
    image_made,     \* per id: generate_image calls that returned, over all runs
    image_steps     \* per id: image steps that ran to their end, over all runs:
                    \* 0, 1, or 2 for two and more

locals == <<enable_images, message_ids, idx, raw_text, translated_text, summary_zh_tw,
            entries>>

disk == <<files, written, latest_count>>

history == <<run, pages, last_call, text_calls, image_calls_at, empty_at,
             image_made, image_steps>>

mainvars == <<locals, disk, history>>

vars == <<pc, built, arg, ret, mainvars>>

\* message ids the listing draws from
Ids == {"m1", "m2"}

NoCallYet == [api |-> "none", status |-> 200]

\* the state of a process that has not started main(), on a disk holding the
\* image files fs
Fresh(fs) ==
    /\ enable_images \in BOOLEAN
    /\ message_ids = <<>>
    /\ idx = 1
    /\ raw_text = <<>>
    /\ translated_text = <<>>
    /\ summary_zh_tw = <<>>
    /\ entries = <<>>
    /\ files = fs
    /\ written = {}
    /\ latest_count = 0
    /\ run = 1
    /\ pages = 0
    /\ last_call = NoCallYet
    /\ text_calls = <<>>
    /\ image_calls_at = <<>>
    /\ empty_at = {}
    /\ image_made = [id \in Ids |-> 0]
    /\ image_steps = [id \in Ids |-> 0]

\* the pure-function specifications leave main() unstarted
Idle == Fresh({}) /\ enable_images = TRUE

-----------------------------------------------------------------------------
(* Outcomes of a call *)

Return(v) == [tag |-> "return", val |-> v]

Raise(e) == [tag |-> e, val |-> <<>>]

NoCall == [tag |-> "none", val |-> <<>>]

-----------------------------------------------------------------------------
(* Python str helpers on code point sequences *)

\* str.isspace() / regex \s for one character (Python 3 unicode whitespace)
IsSpace(c) ==
    \/ c \in 9..13
    \/ c \in 28..32
    \/ c \in {133, 160, 5760, 8232, 8233, 8239, 8287, 12288}
    \/ c \in 8192..8202

RECURSIVE LStrip(_)
LStrip(s) ==
    IF s = <<>> THEN <<>>
    ELSE IF IsSpace(Head(s)) THEN LStrip(Tail(s))
    ELSE s

RECURSIVE RStrip(_)
RStrip(s) ==
    IF s = <<>> THEN <<>>
    ELSE IF IsSpace(s[Len(s)]) THEN RStrip(SubSeq(s, 1, Len(s) - 1))
    ELSE s

\* str.strip()
Strip(s) == RStrip(LStrip(s))

\* re.sub(r"\s+", " ", s)
RECURSIVE CollapseWs(_)
CollapseWs(s) ==
    IF s = <<>> THEN <<>>
    ELSE IF IsSpace(Head(s))
         THEN <<32>> \o CollapseWs(LStrip(s))
         ELSE <<Head(s)>> \o CollapseWs(Tail(s))

\* "\n".join(parts)
RECURSIVE JoinLines(_)
JoinLines(parts) ==
    IF parts = <<>> THEN <<>>
    ELSE IF Len(parts) = 1 THEN parts[1]
    ELSE parts[1] \o <<10>> \o JoinLines(Tail(parts))

-----------------------------------------------------------------------------
(* decode_body: base64.urlsafe_b64decode(...).decode("utf-8", "ignore") *)

\* value of a base64 character after the urlsafe translation ('-' -> '+',
\* '_' -> '/'); -1 for a character outside the alphabet
B64Val(c) ==
    IF c \in 65..90 THEN c - 65
    ELSE IF c \in 97..122 THEN c - 71
    ELSE IF c \in 48..57 THEN c + 4
    ELSE IF c \in {43, 45} THEN 62
    ELSE IF c \in {47, 95} THEN 63
    ELSE -1

\* binascii.a2b_base64 in its default, non-strict mode
RECURSIVE a2b_base64(_, _, _, _, _, _)
a2b_base64(data, i, quad_pos, leftchar, pads, out) ==
    IF i > Len(data)
    THEN IF quad_pos # 0 THEN Raise("binascii.Error") ELSE Return(out)
    ELSE LET c == data[i]
             v == B64Val(c)
         IN  IF c = 61
             THEN IF quad_pos >= 2 /\ quad_pos + pads + 1 >= 4
                  THEN Return(out)
                  ELSE a2b_base64(data, i + 1, quad_pos, leftchar,
                                  IF quad_pos >= 2 THEN pads + 1 ELSE pads, out)
             ELSE IF v = -1
             THEN a2b_base64(data, i + 1, quad_pos, leftchar, pads, out)
             ELSE IF quad_pos = 0
             THEN a2b_base64(data, i + 1, 1, v, 0, out)
             ELSE IF quad_pos = 1
             THEN a2b_base64(data, i + 1, 2, v % 16, 0,
                             Append(out, leftchar * 4 + v \div 16))
             ELSE IF quad_pos = 2
             THEN a2b_base64(data, i + 1, 3, v % 4, 0,
                             Append(out, leftchar * 16 + v \div 4))
             ELSE a2b_base64(data, i + 1, 0, 0, 0,
                             Append(out, leftchar * 64 + v))

IsCont(b) == b \in 128..191

\* bytes.decode("utf-8", errors="ignore"): a well-formed sequence yields its
\* code point, any other byte is dropped
RECURSIVE Utf8DecodeIgnore(_)
Utf8DecodeIgnore(bs) ==
    IF bs = <<>> THEN <<>>
    ELSE LET b1 == bs[1]
             n  == Len(bs)
             rest(k) == Utf8DecodeIgnore(SubSeq(bs, k + 1, n))
         IN  IF b1 < 128 THEN <<b1>> \o rest(1)
             ELSE IF b1 \in 194..223 /\ n >= 2 /\ IsCont(bs[2])
             THEN <<(b1 - 192) * 64 + (bs[2] - 128)>> \o rest(2)
             ELSE IF /\ b1 \in 224..239 /\ n >= 3 /\ IsCont(bs[2]) /\ IsCont(bs[3])
                     /\ (b1 = 224 => bs[2] >= 160)
                     /\ (b1 = 237 => bs[2] <= 159)
             THEN <<(b1 - 224) * 4096 + (bs[2] - 128) * 64 + (bs[3] - 128)>> \o rest(3)
             ELSE IF /\ b1 \in 240..244 /\ n >= 4
                     /\ IsCont(bs[2]) /\ IsCont(bs[3]) /\ IsCont(bs[4])
                     /\ (b1 = 240 => bs[2] >= 144)
                     /\ (b1 = 244 => bs[2] <= 143)
             THEN <<(b1 - 240) * 262144 + (bs[2] - 128) * 4096
                      + (bs[3] - 128) * 64 + (bs[4] - 128)>> \o rest(4)
             ELSE rest(1)

\* '=' * (-len(data) % 4)
Padding(data) == [k \in 1..((4 - (Len(data) % 4)) % 4) |-> 61]

decode_body(data) ==
    IF data = <<>> THEN Return(<<>>)
    ELSE LET raw == a2b_base64(data \o Padding(data), 1, 0, 0, 0, <<>>)
         IN  IF raw.tag = "return" THEN Return(Utf8DecodeIgnore(raw.val)) ELSE raw

-----------------------------------------------------------------------------
(* Specification of decode_body applied to bounded data *)

MaxDataLen == 4

\* characters the model draws body data from: 'A' 'E' 'I' 'Q' 'S' '_' 'w',
\* the pad '=' and '!', which is outside the base64 alphabet
DataChars == {65, 69, 73, 81, 83, 95, 119, 61, 33}

RECURSIVE SeqsUpTo(_, _)
SeqsUpTo(S, n) ==
    IF n = 0 THEN {<<>>}
    ELSE LET shorter == SeqsUpTo(S, n - 1)
         IN  shorter \cup {Append(s, c) : s \in {t \in shorter : Len(t) = n - 1}, c \in S}

InitDecode ==
    /\ Idle
    /\ pc = "call"
    /\ built = <<>>
    /\ arg = <<>>
    /\ ret = NoCall

CallDecode ==
    /\ pc = "call"
    /\ \E data \in SeqsUpTo(DataChars, MaxDataLen) :
          /\ arg' = data
          /\ ret' = decode_body(data)
    /\ pc' = "returned"
    /\ UNCHANGED <<built, mainvars>>

NextCall ==
    /\ pc = "returned"
    /\ pc' = "call"
    /\ built' = <<>>
    /\ arg' = <<>>
    /\ ret' = NoCall
    /\ UNCHANGED mainvars

NextDecode == CallDecode \/ NextCall

SpecDecode == InitDecode /\ [][NextDecode]_vars

-----------------------------------------------------------------------------
(* extract_text_from_payload over a Part tree                               *)
(* A Part is [mimeType, data, parts]: data is body.data ("" when the body   *)
(* or its data is absent), parts the ordered children.                      *)

\* clean_html_to_text on text that holds no '<' and no '&': the three tag
\* substitutions and html.unescape leave such text unchanged, what remains is
\* the whitespace collapse and the strip.  The model's text/html bodies are
\* all of this kind.
clean_html_to_text(raw_html) == Strip(CollapseWs(raw_html))

\* (t for t in texts if t.strip())
KeepAll(texts) == texts

KeepNonBlank(texts) == SelectSeq(texts, LAMBDA t : Strip(t) # <<>>)

RECURSIVE extract_text_from_payload(_)
RECURSIVE ExtractParts(_)

\* the loop "for part in parts: texts.append(extract_text_from_payload(part))";
\* the first exception raised by a child escapes
ExtractParts(parts) ==
    IF parts = <<>> THEN Return(<<>>)
    ELSE LET first == extract_text_from_payload(Head(parts))
         IN  IF first.tag # "return" THEN first
             ELSE LET others == ExtractParts(Tail(parts))
                  IN  IF others.tag # "return" THEN others
                      ELSE Return(<<first.val>> \o others.val)

extract_text_from_payload(payload) ==
    IF payload.mimeType = "text/plain" THEN decode_body(payload.data)
    ELSE IF payload.mimeType = "text/html"
    THEN LET decoded == decode_body(payload.data)
         IN  IF decoded.tag = "return"
             THEN Return(clean_html_to_text(decoded.val))
             ELSE decoded
    ELSE LET texts == ExtractParts(payload.parts)
         IN  IF texts.tag = "return"
             THEN Return(Strip(JoinLines(KeepNonBlank(texts.val))))
             ELSE texts

-----------------------------------------------------------------------------
(* Specification of extract_text_from_payload applied to bounded Part trees *)

MaxNodes == 5

\* base64url bodies of text/plain leaves: "" (absent), "QQ" = 'A',
\* "IA" = ' ', "IEE" = ' A', "QSA" = 'A ', "QQpC" = 'A\nB', and "Q", whose
\* length is 1 modulo 4
PlainData ==
    { <<>>, <<81, 81>>, <<73, 65>>, <<73, 69, 69>>, <<81, 83, 65>>,
      <<81, 81, 112, 67>>, <<81>> }

\* body of text/html leaves: "QSAgQg" = 'A  B'
HtmlData == { <<81, 83, 65, 103, 81, 103>> }

Part(m, d, ps) == [mimeType |-> m, data |-> d, parts |-> ps]

\* Parts without children: text leaves, an attachment, an empty container
Childless ==
    {Part("text/plain", d, <<>>) : d \in PlainData}
      \cup {Part("text/html", d, <<>>) : d \in HtmlData}
      \cup {Part("image/png", <<81, 81>>, <<>>), Part("multipart/mixed", <<>>, <<>>)}

RECURSIVE NodeCount(_)
\* the number of Parts in a forest
NodeCount(forest) ==
    IF forest = <<>> THEN 0
    ELSE 1 + NodeCount(Head(forest).parts) + NodeCount(Tail(forest))

InitExtract ==
    /\ Idle
    /\ pc = "call"
    /\ built = <<>>
    /\ arg = <<>>
    /\ ret = NoCall

\* the message source adds a Part without children to the message
AddPart ==
    /\ pc = "call"
    /\ NodeCount(built) < MaxNodes
    /\ \E part \in Childless : built' = Append(built, part)
    /\ UNCHANGED <<pc, arg, ret, mainvars>>

\* the message source puts the last k Parts into a multipart container
WrapParts ==
    /\ pc = "call"
    /\ NodeCount(built) < MaxNodes
    /\ \E k \in 1..Len(built) :
          built' = Append(SubSeq(built, 1, Len(built) - k),
                          Part("multipart/mixed", <<>>,
                               SubSeq(built, Len(built) - k + 1, Len(built))))
    /\ UNCHANGED <<pc, arg, ret, mainvars>>

\* extract_text_from_payload is applied to the assembled message payload
CallExtract ==
    /\ pc = "call"
    /\ Len(built) = 1
    /\ arg' = built[1]
    /\ ret' = extract_text_from_payload(built[1])
    /\ pc' = "returned"
    /\ UNCHANGED <<built, mainvars>>

NextExtract == AddPart \/ WrapParts \/ CallExtract \/ NextCall

SpecExtract == InitExtract /\ [][NextExtract]_vars

-----------------------------------------------------------------------------
(* The text-generation response and its JSON                                *)
(* The model's output text is a sequence of lexemes: the characters         *)
(* "{" "}" "[" "]" "," , a whitespace character " ", a prose character "x", *)
(* the digit "1", "FENCE" (the code fence, a run of three backticks), the   *)
(* word "json", and                                                         *)
(* member lexemes, each the text of one  "key": value  pair of an object    *)
(* (no member text holds a brace).                                          *)

\* the member lexemes: key and value of the pair each stands for; a value is
\* a string (kind "str") or the JSON null
MemberOf(lx) ==
    CASE lx = "L1" -> [key |-> "language", kind |-> "str", value |-> <<101, 110>>]
      [] lx = "L2" -> [key |-> "language", kind |-> "str", value |-> <<122, 104>>]
      [] lx = "T1" -> [key |-> "translated_text", kind |-> "str", value |-> <<72, 105>>]
      [] lx = "T2" -> [key |-> "translated_text", kind |-> "str", value |-> <<32, 10>>]
      [] lx = "T3" -> [key |-> "translated_text", kind |-> "str", value |-> <<>>]
      [] lx = "Tn" -> [key |-> "translated_text", kind |-> "null", value |-> <<>>]
      [] lx = "S1" -> [key |-> "summary_zh_tw", kind |-> "str", value |-> <<111, 107>>]
      [] lx = "S2" -> [key |-> "summary_zh_tw", kind |-> "str", value |-> <<32, 111, 32, 32, 107>>]
      [] lx = "S3" -> [key |-> "summary_zh_tw", kind |-> "str", value |-> <<>>]

Members == {"L1", "L2", "T1", "T2", "T3", "Tn", "S1", "S2", "S3"}

\* str.strip(), str.find, str.rfind on lexeme sequences (0 stands for -1)
RECURSIVE StripText(_)
StripText(t) ==
    IF t = <<>> THEN <<>>
    ELSE IF Head(t) = " " THEN StripText(Tail(t))
    ELSE IF t[Len(t)] = " " THEN StripText(SubSeq(t, 1, Len(t) - 1))
    ELSE t

Find(t, ch) ==
    IF \E i \in 1..Len(t) : t[i] = ch
    THEN CHOOSE i \in 1..Len(t) : t[i] = ch /\ \A j \in 1..(i - 1) : t[j] # ch
    ELSE 0

RFind(t, ch) ==
    IF \E i \in 1..Len(t) : t[i] = ch
    THEN CHOOSE i \in 1..Len(t) : t[i] = ch /\ \A j \in (i + 1)..Len(t) : t[j] # ch
    ELSE 0

RECURSIVE SkipWs(_, _)
\* index of the first lexeme at or after i that is not whitespace
SkipWs(t, i) ==
    IF i <= Len(t) /\ t[i] = " " THEN SkipWs(t, i + 1) ELSE i

\* Values json.loads returns: a dict carries its items in source order
JsonDict(items) == [type |-> "dict", items |-> items]

JsonList == [type |-> "list", items |-> <<>>]

JsonInt == [type |-> "int", items |-> <<>>]

Parsed(v, next) == [ok |-> TRUE, val |-> v, next |-> next]

NotJson == [ok |-> FALSE, val |-> JsonInt, next |-> 0]

RECURSIVE SkipDigits(_, _)
\* index of the first lexeme at or after i that is not a digit
SkipDigits(t, i) ==
    IF i <= Len(t) /\ t[i] = "1" THEN SkipDigits(t, i + 1) ELSE i

RECURSIVE ParseValue(_, _)
RECURSIVE ParseMembers(_, _, _)
RECURSIVE ParseElements(_, _)

\* the members of an object from index i on, up to its closing brace
ParseMembers(t, i, items) ==
    IF i > Len(t) \/ t[i] \notin Members THEN NotJson
    ELSE LET k == SkipWs(t, i + 1)
             got == Append(items, MemberOf(t[i]))
         IN  IF k > Len(t) THEN NotJson
             ELSE IF t[k] = "}" THEN Parsed(JsonDict(got), k + 1)
             ELSE IF t[k] = "," THEN ParseMembers(t, SkipWs(t, k + 1), got)
             ELSE NotJson

\* the elements of an array from index i on, up to its closing bracket
ParseElements(t, i) ==
    LET elem == ParseValue(t, i)
        k == SkipWs(t, elem.next)
    IN  IF ~elem.ok \/ k > Len(t) THEN NotJson
        ELSE IF t[k] = "]" THEN Parsed(JsonList, k + 1)
        ELSE IF t[k] = "," THEN ParseElements(t, SkipWs(t, k + 1))
        ELSE NotJson

\* one JSON value starting at index i
ParseValue(t, i) ==
    IF i > Len(t) THEN NotJson
    ELSE IF t[i] = "1" THEN Parsed(JsonInt, SkipDigits(t, i))
    ELSE IF t[i] = "{"
    THEN LET k == SkipWs(t, i + 1)
         IN  IF k <= Len(t) /\ t[k] = "}" THEN Parsed(JsonDict(<<>>), k + 1)
             ELSE ParseMembers(t, k, <<>>)
    ELSE IF t[i] = "["
    THEN LET k == SkipWs(t, i + 1)
         IN  IF k <= Len(t) /\ t[k] = "]" THEN Parsed(JsonList, k + 1)
             ELSE ParseElements(t, k)
    ELSE NotJson

\* json.loads: one value, whitespace around it, nothing else
json_loads(t) ==
    LET r == ParseValue(t, SkipWs(t, 1))
    IN  IF r.ok /\ SkipWs(t, r.next) > Len(t)
        THEN Return(r.val)
        ELSE Raise("JSONDecodeError")

\* dict.get(key, default): the last item of that key wins
DictGet(d, key, default) ==
    LET hits == SelectSeq(d.items, LAMBDA m : m.key = key)
    IN  IF hits = <<>> THEN default ELSE hits[Len(hits)]

Str(v) == [key |-> "", kind |-> "str", value |-> v]

-----------------------------------------------------------------------------
(* gemini_translate_and_summarize *)

SafetyPlaceholder ==
    <<65288, 20839, 23481, 22240, 23433, 20840, 24615, 38480, 21046, 28961,
      27861, 25688, 35201, 65289>>

EmptyPlaceholder == <<65288, 20839, 23481, 25688, 35201, 22833, 25943, 65289>>

ParseFailedPlaceholder ==
    <<65288, 20839, 23481, 25688, 35201, 35299, 26512, 22833, 25943, 65289>>

\* the degraded result built at lines 159-163, 170-174 and 199-203
Degraded(text, placeholder) ==
    JsonDict(<< [key |-> "language", kind |-> "str", value |-> <<117, 110, 107, 110, 111, 119, 110>>],
                [key |-> "translated_text", kind |-> "str", value |-> text],
                [key |-> "summary_zh_tw", kind |-> "str", value |-> placeholder] >>)

RECURSIVE ConcatParts(_)
\* output_text += part.get("text", "") over the parts of one candidate
ConcatParts(parts) ==
    IF parts = <<>> THEN <<>> ELSE Head(parts) \o ConcatParts(Tail(parts))

RECURSIVE ScanCandidates(_, _)
\* the loop over data["candidates"]: it returns at the first candidate whose
\* finish reason is SAFETY, and collects the text of the others
ScanCandidates(candidates, output_text) ==
    IF candidates = <<>> THEN [safety |-> FALSE, text |-> output_text]
    ELSE IF Head(candidates).finishReason = "SAFETY"
    THEN [safety |-> TRUE, text |-> output_text]
    ELSE ScanCandidates(Tail(candidates),
                        output_text \o ConcatParts(Head(candidates).parts))

\* the first re.sub of line 177: a fence at the start of the text, an
\* optional "json" after it and the whitespace that follows are removed
StripFenceOpen(t) ==
    IF t # <<>> /\ t[1] = "FENCE"
    THEN LET i == IF Len(t) >= 2 /\ t[2] = "json" THEN 3 ELSE 2
         IN  SubSeq(t, SkipWs(t, i), Len(t))
    ELSE t

RECURSIVE DropTrailingWs(_)
DropTrailingWs(t) ==
    IF t # <<>> /\ t[Len(t)] = " " THEN DropTrailingWs(SubSeq(t, 1, Len(t) - 1)) ELSE t

\* the second re.sub of line 178: a fence at the end of the text and the
\* whitespace before it are removed
StripFenceClose(t) ==
    IF t # <<>> /\ t[Len(t)] = "FENCE"
    THEN DropTrailingWs(SubSeq(t, 1, Len(t) - 1))
    ELSE t

\* a brace span cut at the first "}" instead of the last
BraceSpanFirstClose(t) ==
    LET start == Find(t, "{")
        end == Find(t, "}")
    IN  IF start # 0 /\ end # 0 /\ end > start THEN SubSeq(t, start, end) ELSE <<>>

\* text_value[start : end + 1] for the first "{" and the last "}", when
\* start != -1 and end != -1 and end > start; <<>> when there is no such span
BraceSpan(t) ==
    LET start == Find(t, "{")
        end == RFind(t, "}")
    IN  IF start # 0 /\ end # 0 /\ end > start THEN SubSeq(t, start, end) ELSE <<>>

\* the nested parse_loose_json
parse_loose_json(text_value) ==
    LET whole == json_loads(text_value)
    IN  IF whole.tag = "return" THEN whole
        ELSE IF BraceSpan(text_value) # <<>> THEN json_loads(BraceSpan(text_value))
        ELSE whole

\* re.search(r"\{.*\}", t, flags=re.S): the leftmost "{" that has a "}" after
\* it is the first "{" of the text, and the greedy .* runs to the last "}"
RegexObject(t) == BraceSpan(t)

\* the parsing chain of lines 176-203 applied to the stripped output text
ParseOutput(text, output_text) ==
    LET unfenced == StripFenceClose(StripFenceOpen(output_text))
        first == parse_loose_json(unfenced)
    IN  IF first.tag = "return" THEN first
        ELSE IF RegexObject(unfenced) # <<>>
        THEN parse_loose_json(RegexObject(unfenced))
        ELSE Return(Degraded(text, ParseFailedPlaceholder))

\* the function without the status check of lines 152-153
gemini_ignoring_status(text, resp) ==
    LET scan == ScanCandidates(resp.candidates, <<>>)
        output_text == StripText(scan.text)
    IN  IF scan.safety THEN Return(Degraded(text, SafetyPlaceholder))
        ELSE IF output_text = <<>> THEN Return(Degraded(text, EmptyPlaceholder))
        ELSE ParseOutput(text, output_text)

\* a response is [status, candidates]; a candidate is [finishReason, parts],
\* parts being the text fragments of content.parts
gemini_translate_and_summarize(text, resp) ==
    IF resp.status # 200 THEN Raise("SystemExit")
    ELSE LET scan == ScanCandidates(resp.candidates, <<>>)
             output_text == StripText(scan.text)
         IN  IF scan.safety THEN Return(Degraded(text, SafetyPlaceholder))
             ELSE IF output_text = <<>> THEN Return(Degraded(text, EmptyPlaceholder))
             ELSE ParseOutput(text, output_text)

-----------------------------------------------------------------------------
(* Specification of gemini_translate_and_summarize applied to bounded       *)
(* responses                                                                *)

MaxOutLen == 3

MaxCandidates == 2

MaxProseLen == 2

\* the lexemes of the exhaustively enumerated output texts
OutChars == {"{", "}", "[", "]", ",", " ", "x", "FENCE", "json", "1", "T1", "S3"}

\* the lexemes of the prose put around a serialized object
ProseChars == {"x", "{", "}", "[", "]"}

\* normalized message texts handed to the function: "Hi" and "Z"
InputTexts == { <<72, 105>>, <<90>> }

Candidate(reason, parts) == [finishReason |-> reason, parts |-> parts]

Response(status, candidates) == [status |-> status, candidates |-> candidates]

\* objects with the three string fields, as member lexemes
Objects == { <<"L1", "T1", "S1">>, <<"L2", "T2", "S2">>, <<"L1", "T3", "S3">> }

\* strict JSON text of an object, compact or with whitespace between lexemes
Serialize(obj, spaced) ==
    IF spaced
    THEN <<"{", " ", obj[1], ",", " ", obj[2], ",", " ", obj[3], " ", "}">>
    ELSE <<"{", obj[1], ",", obj[2], ",", obj[3], "}">>

\* the serialized object inside a code fence (bare, or tagged json), or bare
Fenced(body, fence) ==
    IF fence = "plain" THEN <<"FENCE", " ">> \o body \o <<" ", "FENCE">>
    ELSE IF fence = "json" THEN <<"FENCE", "json", " ">> \o body \o <<" ", "FENCE">>
    ELSE body

\* how an output text was made: prose, fence and object (obj = <<>> when the
\* text was not made from an object)
NoWrap == [pre |-> <<>>, post |-> <<>>, fence |-> "none", obj |-> <<>>]

WrappedText(w, spaced) == w.pre \o Fenced(Serialize(w.obj, spaced), w.fence) \o w.post

\* the content.parts of the candidates of multi-candidate responses
FragmentLists ==
    { <<>>, << <<>> >>, << <<" ">> >>, << <<"x">> >>,
      << <<"{", "L1", ",", "T1", ",", "S1", "}">> >>,
      << <<"{", "T1">>, <<"}">> >> }

CandidateLists ==
    SeqsUpTo({Candidate(r, ps) : r \in {"STOP", "SAFETY"}, ps \in FragmentLists},
             MaxCandidates)

InitGemini ==
    /\ Idle
    /\ pc = "call"
    /\ built = <<>>
    /\ arg = <<>>
    /\ ret = NoCall

Apply(text, resp, wrap) ==
    /\ arg' = [text |-> text, resp |-> resp, wrap |-> wrap]
    /\ ret' = gemini_translate_and_summarize(text, resp)
    /\ pc' = "returned"
    /\ UNCHANGED <<built, mainvars>>

\* the collaborator answers with one candidate carrying one text fragment
CallOneCandidate ==
    /\ pc = "call"
    /\ \E t \in SeqsUpTo(OutChars, MaxOutLen) :
          Apply(<<72, 105>>, Response(200, <<Candidate("STOP", <<t>>)>>), NoWrap)

\* the collaborator answers with any list of candidates, or with an error
CallCandidates ==
    /\ pc = "call"
    /\ \E text \in InputTexts, status \in {200, 429, 500}, cs \in CandidateLists :
          Apply(text, Response(status, cs), NoWrap)

\* the collaborator answers with a serialized object, fenced or not, with
\* prose before and after it
CallWrapped ==
    /\ pc = "call"
    /\ \E pre \in SeqsUpTo(ProseChars, MaxProseLen),
          post \in SeqsUpTo(ProseChars, MaxProseLen),
          fence \in {"none", "plain", "json"},
          obj \in Objects, spaced \in BOOLEAN :
          LET w == [pre |-> pre, post |-> post, fence |-> fence, obj |-> obj]
          IN  Apply(<<72, 105>>,
                    Response(200, <<Candidate("STOP", <<WrappedText(w, spaced)>>)>>), w)

NextGemini == CallOneCandidate \/ CallCandidates \/ CallWrapped \/ NextCall

SpecGemini == InitGemini /\ [][NextGemini]_vars

-----------------------------------------------------------------------------
(* main(): one run of the digest generator                                  *)
(* The headers of a message (subject, sender, date) and what is derived     *)
(* from them do not take part in any decision of the loop; a record of the  *)
(* model carries the message id and the three texts.                        *)

MaxMessages == 2

MaxRuns == 2

MaxPages == 2

MaxChars == 12000

SummaryMaxChars == 4000

\* "\n\n[...]", the marker normalize_text appends to a truncated text
TruncatedMarker == <<10, 10, 91, 20839, 23481, 24050, 25130, 26039, 93>>

\* the literal of line 566 that stands in for an empty summary
NoSummary == <<40, 28961, 25688, 35201, 41>>

normalize_text(text, max_chars) ==
    LET t == Strip(CollapseWs(text))
    IN  IF Len(t) > max_chars THEN SubSeq(t, 1, max_chars) \o TruncatedMarker ELSE t

\* "if not raw_text: continue"
NeverSkip(text) == FALSE

ShouldSkip(text) == text = <<>>

\* "x or fallback" on texts
OrElse(text, fallback) == IF text # <<>> THEN text ELSE fallback

\* os.path.exists(image_path) for the image of message id
NeverPresent(fs, id) == FALSE

ImagePresent(fs, id) == id \in fs

\* lines 546-547 on the value gemini_translate_and_summarize returned: .get on
\* a value that is no dict raises AttributeError, normalize_text on a value that
\* is no string raises TypeError
PostProcess(ai) ==
    IF ai.type # "dict" THEN Raise("AttributeError")
    ELSE LET t == DictGet(ai, "translated_text", Str(<<>>))
             s == DictGet(ai, "summary_zh_tw", Str(<<>>))
         IN  IF t.kind # "str" \/ s.kind # "str" THEN Raise("TypeError")
             ELSE Return([translated_text |-> normalize_text(t.value, MaxChars),
                          summary_zh_tw |-> normalize_text(s.value, SummaryMaxChars)])

\* the fallbacks of lines 565-566 dropped
EntryWithoutDefaults(id, original, translated, summary) ==
    [id |-> id, original_text |-> original,
     translated_text |-> translated, summary_zh_tw |-> summary]

\* the record of lines 558-571
Entry(id, original, translated, summary) ==
    [id |-> id, original_text |-> original,
     translated_text |-> OrElse(translated, original),
     summary_zh_tw |-> OrElse(summary, NoSummary)]

\* payloads the message source answers with: an absent body, a container
\* holding a blank text, a text of two lines, a text with an html
\* alternative, and a text body of one base64 character
SamplePayloads ==
    { Part("text/plain", <<>>, <<>>),
      Part("multipart/mixed", <<>>, <<Part("text/plain", <<73, 65>>, <<>>)>>),
      Part("text/plain", <<81, 81, 112, 67>>, <<>>),
      Part("multipart/mixed", <<>>,
           <<Part("text/plain", <<81, 83, 66, 67>>, <<>>),
             Part("text/html", <<81, 83, 65, 103, 81, 103>>, <<>>)>>),
      Part("text/plain", <<81>>, <<>>) }

OneText(t) == Response(200, <<Candidate("STOP", <<t>>)>>)

\* answers of the text-generation collaborator
SampleResponses ==
    { Response(500, <<>>),
      Response(200, <<>>),
      Response(200, <<Candidate("SAFETY", <<>>)>>),
      OneText(<<"{", "L1", ",", "T1", ",", "S1", "}">>),
      OneText(<<"{", "L1", "}">>),
      OneText(<<"{", "L2", ",", "T2", ",", "S3", "}">>),
      OneText(<<"FENCE", "json", " ", "{", "T1", ",", "S1", "}", " ", "FENCE">>),
      OneText(<<"x">>),
      OneText(<<"{", "x", "}">>),
      OneText(<<"[", "]">>),
      OneText(<<"{", "Tn", "}">>) }

\* answers of the image-generation collaborator: has_image tells whether
\* data[0].b64_json is there
ImageResponses ==
    { [status |-> 200, has_image |-> TRUE],
      [status |-> 200, has_image |-> FALSE],
      [status |-> 500, has_image |-> FALSE] }

Init ==
    /\ \E fs \in SUBSET Ids : Fresh(fs)
    /\ pc = "token"
    /\ built = <<>>
    /\ arg = <<>>
    /\ ret = NoCall

Called(api, status) == last_call' = [api |-> api, status |-> status]

\* raise SystemExit: the process ends, nothing more is written
Abort ==
    /\ pc' = "aborted"
    /\ UNCHANGED <<built, arg, ret, locals, disk>>

\* an exception nothing catches: the process ends with a traceback
Crash ==
    /\ pc' = "crashed"
    /\ UNCHANGED <<built, arg, ret, locals, disk>>

\* refresh_gmail_access_token
RefreshToken ==
    /\ pc = "token"
    /\ \E status \in {200, 401} :
          /\ Called("token", status)
          /\ IF status # 200 THEN Abort
             ELSE /\ pc' = "list"
                  /\ UNCHANGED <<built, arg, ret, locals, disk>>
    /\ UNCHANGED <<run, pages, text_calls, image_calls_at, empty_at, image_made, image_steps>>

\* one turn of the paging loop of list_messages: one gmail_get; the listing
\* has at most MaxPages pages and MaxMessages messages
ListPage ==
    /\ pc = "list"
    /\ \E status \in {200, 503},
          page \in SeqsUpTo(Ids, MaxMessages - Len(message_ids)),
          more \in (IF pages + 1 < MaxPages THEN BOOLEAN ELSE {FALSE}) :
          /\ Called("list", status)
          /\ IF status # 200 THEN Abort /\ UNCHANGED <<pages, text_calls, image_calls_at>>
             ELSE /\ message_ids' = message_ids \o page
                  /\ text_calls' = [i \in 1..Len(message_ids') |-> 0]
                  /\ image_calls_at' = [i \in 1..Len(message_ids') |-> 0]
                  /\ pc' = IF more THEN "list" ELSE "loop"
                  /\ pages' = IF more THEN pages + 1 ELSE 0
                  /\ UNCHANGED <<built, arg, ret, enable_images, idx, raw_text,
                                 translated_text, summary_zh_tw, entries, disk>>
    /\ UNCHANGED <<run, empty_at, image_made, image_steps>>

\* lines 532-543: get_message, extract_text_from_payload, normalize_text and
\* the skip of a message without text
FetchMessage ==
    /\ pc = "loop"
    /\ idx <= Len(message_ids)
    /\ \E status \in {200, 404}, payload \in SamplePayloads :
          LET extracted == extract_text_from_payload(payload)
              text == normalize_text(extracted.val, MaxChars)
          IN  /\ Called("get", status)
              /\ IF status # 200 THEN Abort /\ UNCHANGED empty_at
                 ELSE IF extracted.tag # "return" THEN Crash /\ UNCHANGED empty_at
                 ELSE /\ raw_text' = text
                      /\ empty_at' = IF text = <<>> THEN empty_at \cup {idx} ELSE empty_at
                      /\ IF ShouldSkip(text)
                         THEN pc' = "loop" /\ idx' = idx + 1
                         ELSE pc' = "summarize" /\ idx' = idx
                      /\ UNCHANGED <<built, arg, ret, enable_images, message_ids,
                                     translated_text, summary_zh_tw, entries, disk>>
    /\ UNCHANGED <<run, pages, text_calls, image_calls_at, image_made,
                   image_steps>>

\* lines 545-547, and lines 558-571 when image generation is off
Summarize ==
    /\ pc = "summarize"
    /\ \E resp \in SampleResponses :
          LET ai == gemini_translate_and_summarize(raw_text, resp)
              post == PostProcess(ai.val)
          IN  /\ Called("text", resp.status)
              /\ text_calls' = [text_calls EXCEPT ![idx] = @ + 1]
              /\ IF ai.tag = "SystemExit" THEN Abort
                 ELSE IF ai.tag # "return" \/ post.tag # "return" THEN Crash
                 ELSE /\ translated_text' = post.val.translated_text
                      /\ summary_zh_tw' = post.val.summary_zh_tw
                      /\ IF enable_images
                         THEN /\ pc' = "image"
                              /\ UNCHANGED <<idx, entries>>
                         ELSE /\ pc' = "loop"
                              /\ idx' = idx + 1
                              /\ entries' = Append(entries,
                                     Entry(message_ids[idx], raw_text,
                                           post.val.translated_text,
                                           post.val.summary_zh_tw))
                      /\ UNCHANGED <<built, arg, ret, enable_images, message_ids,
                                     raw_text, disk>>
    /\ UNCHANGED <<run, pages, image_calls_at, empty_at, image_made,
                   image_steps>>

AppendEntry ==
    /\ entries' = Append(entries, Entry(message_ids[idx], raw_text, translated_text,
                                        summary_zh_tw))
    /\ idx' = idx + 1
    /\ pc' = "loop"
    /\ image_steps' = [image_steps EXCEPT ![message_ids[idx]] = IF @ = 0 THEN 1 ELSE 2]
    /\ UNCHANGED <<built, arg, ret, enable_images, message_ids, raw_text,
                   translated_text, summary_zh_tw, written, latest_count>>

\* lines 554 and 558-571: the image is there, generate_image is not called
ImageExists ==
    /\ pc = "image"
    /\ ImagePresent(files, message_ids[idx])
    /\ AppendEntry
    /\ UNCHANGED <<files, run, pages, last_call, text_calls, image_calls_at,
                   empty_at, image_made>>

\* lines 554-556 and 558-571: generate_image, which writes the file after a
\* 200 answer carrying image data and raises SystemExit otherwise
GenerateImage ==
    /\ pc = "image"
    /\ ~ImagePresent(files, message_ids[idx])
    /\ \E resp \in ImageResponses :
          /\ Called("image", resp.status)
          /\ image_calls_at' = [image_calls_at EXCEPT ![idx] = @ + 1]
          /\ IF resp.status # 200 \/ ~resp.has_image
             THEN /\ Abort
                  /\ UNCHANGED <<image_made, image_steps>>
             ELSE /\ files' = files \cup {message_ids[idx]}
                  /\ AppendEntry
                  /\ image_made' = [image_made EXCEPT ![message_ids[idx]] = @ + 1]
    /\ UNCHANGED <<run, pages, text_calls, empty_at>>

\* lines 573-583: render_html, public/index.html and data/latest.json
WriteOutputs ==
    /\ pc = "loop"
    /\ idx > Len(message_ids)
    /\ written' = {"public/index.html", "data/latest.json"}
    /\ latest_count' = Len(entries)
    /\ pc' = "done"
    /\ UNCHANGED <<built, arg, ret, locals, files, history>>

Next ==
    \/ RefreshToken
    \/ ListPage
    \/ FetchMessage
    \/ Summarize
    \/ ImageExists
    \/ GenerateImage
    \/ WriteOutputs

Spec == Init /\ [][Next]_vars

\* the program is started again (the scheduled job): the image directory is
\* what the earlier runs left, everything else starts afresh
StartRun ==
    /\ pc \in {"done", "aborted", "crashed"}
    /\ run < MaxRuns
    /\ run' = run + 1
    /\ pc' = "token"
    /\ message_ids' = <<>>
    /\ idx' = 1
    /\ raw_text' = <<>>
    /\ translated_text' = <<>>
    /\ summary_zh_tw' = <<>>
    /\ entries' = <<>>
    /\ written' = {}
    /\ latest_count' = 0
    /\ pages' = 0
    /\ last_call' = NoCallYet
    /\ text_calls' = <<>>
    /\ image_calls_at' = <<>>
    /\ empty_at' = {}
    /\ UNCHANGED <<built, arg, ret, enable_images, files, image_made,
                   image_steps>>

InitRuns ==
    /\ Fresh({})
    /\ pc = "token"
    /\ built = <<>>
    /\ arg = <<>>
    /\ ret = NoCall

NextRuns ==
    \/ Next
    \/ StartRun

SpecRuns == InitRuns /\ [][NextRuns]_vars

-----------------------------------------------------------------------------
(* build_image_prompt *)

PromptSummaryChars == 400

\* the openers and closers named by the pattern of line 250:
\* "[", the left lenticular bracket and "(" ; "]", the right lenticular
\* bracket and ")"
TagOpeners == {91, 12304, 40}

TagClosers == {93, 12305, 41}

\* index of the first character of s at or after i that is in S; 0 if none
RECURSIVE FirstIn(_, _, _)
FirstIn(s, i, S) ==
    IF i > Len(s) THEN 0
    ELSE IF s[i] \in S THEN i
    ELSE FirstIn(s, i + 1, S)

\* where the match of "^[opener].*?[closer]" ends in subject, 0 when there is
\* no match: the lazy .*? stops at the first closer of any kind, and does
\* not run over a newline
TagEnd(subject) ==
    IF subject = <<>> \/ subject[1] \notin TagOpeners THEN 0
    ELSE LET close == FirstIn(subject, 2, TagClosers)
             newline == FirstIn(subject, 2, {10})
         IN  IF close = 0 \/ (newline # 0 /\ newline < close) THEN 0 ELSE close

\* line 250: re.sub of the leading tag and the whitespace after it, and strip
clean_subject(subject) ==
    IF TagEnd(subject) = 0 THEN Strip(subject)
    ELSE Strip(SubSeq(subject, TagEnd(subject) + 1, Len(subject)))

\* re.sub(r"\s+", " ", s) computed without recursion, for long texts: a
\* whitespace character that follows another one is dropped, the others
\* become a space
CollapseRuns(s) ==
    LET kept == SelectSeq([i \in 1..Len(s) |-> i],
                          LAMBDA i : ~IsSpace(s[i]) \/ i = 1 \/ ~IsSpace(s[i - 1]))
    IN  [j \in 1..Len(kept) |-> IF IsSpace(s[kept[j]]) THEN 32 ELSE s[kept[j]]]

\* lines 251-253
clean_summary(summary) ==
    LET t == Strip(CollapseRuns(summary))
    IN  IF Len(t) > PromptSummaryChars THEN SubSeq(t, 1, PromptSummaryChars) ELSE t

\* "Minimal, soft, calm Apple News-style illustration. Abstract, gentle
\* gradients, no text, no logos, no watermark, no people. Inspired by: "
PromptHead ==
    <<77, 105, 110, 105, 109, 97, 108, 44, 32, 115, 111, 102, 116, 44, 32,
      99, 97, 108, 109, 32, 65, 112, 112, 108, 101, 32, 78, 101, 119, 115,
      45, 115, 116, 121, 108, 101, 32, 105, 108, 108, 117, 115, 116, 114, 97,
      116, 105, 111, 110, 46, 32, 65, 98, 115, 116, 114, 97, 99, 116, 44, 32,
      103, 101, 110, 116, 108, 101, 32, 103, 114, 97, 100, 105, 101, 110,
      116, 115, 44, 32, 110, 111, 32, 116, 101, 120, 116, 44, 32, 110, 111,
      32, 108, 111, 103, 111, 115, 44, 32, 110, 111, 32, 119, 97, 116, 101,
      114, 109, 97, 114, 107, 44, 32, 110, 111, 32, 112, 101, 111, 112, 108,
      101, 46, 32, 73, 110, 115, 112, 105, 114, 101, 100, 32, 98, 121, 58,
      32>>

\* ". Summary: "
PromptMid == <<46, 32, 83, 117, 109, 109, 97, 114, 121, 58, 32>>

build_image_prompt(subject, summary) ==
    PromptHead \o clean_subject(subject) \o PromptMid \o clean_summary(summary)

-----------------------------------------------------------------------------
(* Specification of build_image_prompt applied to bounded subjects and      *)
(* summaries                                                                *)

MaxSubjectLen == 3

MaxSummaryParts == 2

\* the tag of the sample subject: a word between lenticular brackets
TechTag == <<12304, 84, 101, 99, 104, 12305>>

\* the sample subject: the tag followed by "Big news today"
TechSubject == <<12304, 84, 101, 99, 104, 12305, 66, 105, 103, 32, 110, 101, 119, 115, 32, 116, 111, 100, 97, 121>>

\* "[", "]", the lenticular brackets, "(", ")", "T", a space and a newline
SubjectChars == {91, 93, 12304, 12305, 40, 41, 84, 32, 10}

\* pieces a summary is put together from: the tag, its parts, whitespace,
\* a letter, and a run of letters three short of the limit of line 252
SummaryPieces ==
    { TechTag, <<12304>>, <<84, 101, 99, 104>>, <<12305>>, <<32>>, <<10>>, <<120>>,
      [i \in 1..(PromptSummaryChars - 3) |-> 120] }

RECURSIVE Flatten(_)
Flatten(pieces) ==
    IF pieces = <<>> THEN <<>> ELSE Head(pieces) \o Flatten(Tail(pieces))

InitPrompt ==
    /\ Idle
    /\ pc = "call"
    /\ built = <<>>
    /\ arg = <<>>
    /\ ret = NoCall

ApplyPrompt(subject, summary) ==
    /\ arg' = [subject |-> subject, summary |-> summary]
    /\ ret' = Return(build_image_prompt(subject, summary))
    /\ pc' = "returned"
    /\ UNCHANGED <<built, mainvars>>

\* the sample subject with any summary
CallTechSubject ==
    /\ pc = "call"
    /\ \E pieces \in SeqsUpTo(SummaryPieces, MaxSummaryParts) :
          ApplyPrompt(TechSubject, Flatten(pieces))

\* any subject with a one-letter summary
CallSubject ==
    /\ pc = "call"
    /\ \E subject \in SeqsUpTo(SubjectChars, MaxSubjectLen) :
          ApplyPrompt(subject, <<120>>)

NextPrompt == CallTechSubject \/ CallSubject \/ NextCall

SpecPrompt == InitPrompt /\ [][NextPrompt]_vars

-----------------------------------------------------------------------------
(* Claims about decode_body and extract_text_from_payload *)

IsMultipart(part) == part.mimeType = "multipart/mixed"

RECURSIVE Leaves(_)
\* the Parts of the tree that are not containers, in document order
Leaves(part) ==
    IF ~IsMultipart(part) THEN <<part>>
    ELSE IF part.parts = <<>> THEN <<>>
    ELSE Leaves(Head(part.parts))
           \o Leaves(Part(part.mimeType, part.data, Tail(part.parts)))

AllLeaves(part, P(_)) == \A i \in 1..Len(Leaves(part)) : P(Leaves(part)[i])

RECURSIVE LeafData(_)
\* the body data of the text/plain leaves, depth first, in document order
LeafData(part) ==
    IF part.mimeType = "text/plain" THEN <<part.data>>
    ELSE IF part.parts = <<>> THEN <<>>
    ELSE LeafData(Head(part.parts))
           \o LeafData(Part(part.mimeType, part.data, Tail(part.parts)))

IsPlainLeaf(part) == part.mimeType = "text/plain"

Decodable(part) == decode_body(part.data).tag = "return"

Trimmed(part) ==
    /\ Decodable(part)
    /\ Strip(decode_body(part.data).val) = decode_body(part.data).val

DecodedLeaves(part) ==
    [i \in 1..Len(LeafData(part)) |-> decode_body(LeafData(part)[i]).val]

\* base64url data whose trailing padding is missing: alphabet characters
\* only, and a length that is not a multiple of 4
IsUnpadded(data) ==
    /\ \A i \in 1..Len(data) : B64Val(data[i]) # -1
    /\ Len(data) % 4 # 0

\* C10: decode_body returns (never raises) on base64url data that lacks its
\* 1, 2 or 3 trailing '=' characters, and returns the empty string for absent or empty data.
C10_DecodeNeverRaises ==
    pc = "returned" =>
        /\ IsUnpadded(arg) => ret.tag = "return"
        /\ arg = <<>> => ret = Return(<<>>)

\* C9 as stated: on a tree whose leaves are all text/plain the extractor
\* returns the decoded leaf bodies, depth first, joined by single newlines
\* and trimmed once at the end.
C9_ReferenceEquality ==
    (pc = "returned" /\ AllLeaves(arg, IsPlainLeaf) /\ AllLeaves(arg, Decodable))
        => ret = Return(Strip(JoinLines(DecodedLeaves(arg))))

\* C9 as amended: when moreover no decoded leaf body starts or ends with
\* whitespace, the extractor returns the non-empty decoded leaf bodies, depth
\* first, joined by single newlines.
C9_TrimmedLeavesEquality ==
    (pc = "returned" /\ AllLeaves(arg, IsPlainLeaf) /\ AllLeaves(arg, Trimmed))
        => ret = Return(JoinLines(SelectSeq(DecodedLeaves(arg), LAMBDA b : b # <<>>)))

\* C9 witness: a nested tree with an empty leaf and two non-empty trimmed
\* leaves has been extracted to a two-line text.
C9_Witness ==
    /\ pc = "returned"
    /\ AllLeaves(arg, IsPlainLeaf) /\ AllLeaves(arg, Trimmed)
    /\ \E i \in 1..Len(arg.parts) : IsMultipart(arg.parts[i])
    /\ \E i \in 1..Len(LeafData(arg)) : LeafData(arg)[i] = <<>>
    /\ Len(SelectSeq(DecodedLeaves(arg), LAMBDA b : b # <<>>)) = 2
    /\ ret.tag = "return"
    /\ \E i \in 1..Len(ret.val) : ret.val[i] = 10

-----------------------------------------------------------------------------
(* Claims about gemini_translate_and_summarize                              *)

AllSafety(candidates) ==
    /\ candidates # <<>>
    /\ \A i \in 1..Len(candidates) : candidates[i].finishReason = "SAFETY"

RECURSIVE AllText(_)
\* the text fragments of all the candidates, concatenated
AllText(candidates) ==
    IF candidates = <<>> THEN <<>>
    ELSE ConcatParts(Head(candidates).parts) \o AllText(Tail(candidates))

\* the unfenced output text of a call that reached the parsing chain
Unfenced(resp) ==
    StripFenceClose(StripFenceOpen(StripText(ScanCandidates(resp.candidates, <<>>).text)))

\* the call got a 200 answer, no safety block and a non-empty output text
ReachedParser ==
    /\ pc = "returned"
    /\ arg.resp.status = 200
    /\ ~ScanCandidates(arg.resp.candidates, <<>>).safety
    /\ StripText(ScanCandidates(arg.resp.candidates, <<>>).text) # <<>>

\* none of the attempts (the whole text, the span from the first "{" to the
\* last "}", the greedy regex match) parses as JSON
NoAttemptParses(t) ==
    /\ json_loads(t).tag # "return"
    /\ BraceSpan(t) # <<>> => json_loads(BraceSpan(t)).tag # "return"
    /\ RegexObject(t) # <<>> => json_loads(RegexObject(t)).tag # "return"

\* C1: response parsing is total: for a non-empty output text no exception
\* escapes, and when no attempt parses as JSON the function returns the
\* degraded result with the parse-failed placeholder.
C1_ParseTotal ==
    ReachedParser =>
        /\ ret.tag = "return"
        /\ NoAttemptParses(Unfenced(arg.resp))
              => ret = Return(Degraded(arg.text, ParseFailedPlaceholder))

\* the three field values of the object the output text was made from have
\* been returned
FieldsRecovered ==
    /\ ret.tag = "return"
    /\ ret.val.type = "dict"
    /\ \A i \in 1..3 :
          DictGet(ret.val, MemberOf(arg.wrap.obj[i]).key, Str(<<0>>)) = MemberOf(arg.wrap.obj[i])

Has(t, lx) == \E i \in 1..Len(t) : t[i] = lx

\* C2 as stated: an object with the three string fields serialized as strict
\* JSON, bare or fenced, with any prose before and after it (braces
\* included), is parsed back to the same three field values.
C2_RoundTripAnyProse ==
    (pc = "returned" /\ arg.wrap.obj # <<>>) => FieldsRecovered

\* the prose has no "{" before the object and no "}" after it, and does not
\* put the bare object inside a JSON array
ProseKeepsObject(w) ==
    /\ ~Has(w.pre, "{")
    /\ ~Has(w.post, "}")
    /\ ~(w.fence = "none" /\ Has(w.pre, "[") /\ Has(w.post, "]"))

\* C2 as amended: the round trip holds when the prose before the object has
\* no "{", the prose after it has no "}", and the prose does not wrap the
\* bare object in square brackets.
C2_RoundTripBraceFreeProse ==
    (pc = "returned" /\ arg.wrap.obj # <<>> /\ ProseKeepsObject(arg.wrap))
        => FieldsRecovered

\* C2 witness: an object in a json-tagged fence with prose before and after
\* the fence has been parsed back to its three field values.
C2_Witness ==
    /\ pc = "returned"
    /\ arg.wrap.obj = <<"L2", "T2", "S2">>
    /\ arg.wrap.fence = "json"
    /\ arg.wrap.pre = <<"x", "}">>
    /\ arg.wrap.post = <<"[", "x">>
    /\ FieldsRecovered

\* C5: a 200 response that is not one whose every candidate is safety-blocked
\* and whose concatenated candidate text is non-empty after trimming is
\* handed to the parsing chain, and the result is what the parser produces.
C5_DispatchToParser ==
    (/\ pc = "returned"
     /\ arg.resp.status = 200
     /\ ~AllSafety(arg.resp.candidates)
     /\ StripText(AllText(arg.resp.candidates)) # <<>>)
        => ret = ParseOutput(arg.text, StripText(AllText(arg.resp.candidates)))

\* C6: a 200 response whose every candidate is safety-blocked returns the
\* degraded result with the safety placeholder, one whose concatenated text
\* is empty returns the degraded result with the empty-output placeholder,
\* and the three placeholders are pairwise different.
C6_SoftFailuresDistinguished ==
    /\ SafetyPlaceholder # EmptyPlaceholder
    /\ SafetyPlaceholder # ParseFailedPlaceholder
    /\ EmptyPlaceholder # ParseFailedPlaceholder
    /\ (pc = "returned" /\ arg.resp.status = 200) =>
          /\ AllSafety(arg.resp.candidates)
                => ret = Return(Degraded(arg.text, SafetyPlaceholder))
          /\ (~AllSafety(arg.resp.candidates)
                /\ StripText(AllText(arg.resp.candidates)) = <<>>)
                => ret = Return(Degraded(arg.text, EmptyPlaceholder))

-----------------------------------------------------------------------------
(* Claims about main                                                        *)

\* C3: a non-200 status from any collaborator call aborts the run at that
\* call: no collaborator call follows it and public/index.html and
\* data/latest.json are not written in that run.
C3_NonSuccessAborts ==
    /\ [](last_call.status # 200 => (pc = "aborted" /\ written = {}))
    /\ [][last_call.status # 200 => (last_call' = last_call /\ written' = written)]_vars

\* C3 witness: the run was aborted by a non-200 status of the image
\* collaborator after a record had been emitted for an earlier message.
C3_Witness ==
    /\ pc = "aborted"
    /\ last_call = [api |-> "image", status |-> 500]
    /\ Len(entries) >= 1
    /\ written = {}

RECURSIVE Kept(_)
\* the ids of the first n listed messages that have a non-empty text
Kept(n) ==
    IF n = 0 THEN <<>>
    ELSE IF n \in empty_at THEN Kept(n - 1)
    ELSE Append(Kept(n - 1), message_ids[n])

EntryIds == [i \in 1..Len(entries) |-> entries[i].id]

\* the number of listed messages the loop is through with
Processed == IF pc = "loop" \/ pc = "done" THEN idx - 1 ELSE 0

\* C7: a listed message whose normalized text is empty gets no
\* text-generation call, no image-generation call and no record; every other
\* message gets exactly one text-generation call and one record, the records
\* are in listing order, and the count of the run summary is their number.
C7_SkipRule ==
    /\ \A i \in empty_at : text_calls[i] = 0 /\ image_calls_at[i] = 0
    /\ \A i \in 1..Len(text_calls) : text_calls[i] <= 1
    /\ \A i \in 1..Processed : i \notin empty_at => text_calls[i] = 1
    /\ pc \in {"loop", "done"} => EntryIds = Kept(idx - 1)
    /\ pc = "done" => (idx - 1 = Len(message_ids) /\ latest_count = Len(entries))

\* C7 witness: a run over two listed messages has completed, the first
\* message had no text, the second got one text-generation call and is the
\* only record.
C7_Witness ==
    /\ pc = "done"
    /\ Len(message_ids) = 2
    /\ empty_at = {1}
    /\ text_calls = <<0, 1>>
    /\ Len(entries) = 1
    /\ latest_count = 1

\* C8: every record has a non-empty translated_text and a non-empty summary;
\* a record is emitted with the normalized input text in place of a missing
\* or empty translated_text and with the literal placeholder in place of a
\* missing or empty summary.
C8_RecordDefaults ==
    /\ [](\A i \in 1..Len(entries) :
              entries[i].translated_text # <<>> /\ entries[i].summary_zh_tw # <<>>)
    /\ [][Len(entries') = Len(entries) + 1 =>
             LET e == entries'[Len(entries')]
             IN  /\ e.original_text = raw_text'
                 /\ e.translated_text =
                       (IF translated_text' = <<>> THEN raw_text' ELSE translated_text')
                 /\ e.summary_zh_tw =
                       (IF summary_zh_tw' = <<>> THEN NoSummary ELSE summary_zh_tw')]_vars

\* C8 witness: a record has been emitted for a message whose parsed object
\* had neither a translated_text nor a summary.
C8_Witness ==
    /\ entries # <<>>
    /\ translated_text = <<>>
    /\ summary_zh_tw = <<>>
    /\ entries[Len(entries)].translated_text = raw_text
    /\ entries[Len(entries)].summary_zh_tw = NoSummary
    /\ raw_text # <<>>

-----------------------------------------------------------------------------
(* Claims about build_image_prompt                                          *)

\* the closer that corresponds to an opener
Closer(c) == IF c = 91 THEN 93 ELSE IF c = 12304 THEN 12305 ELSE 41

Contains(t, sub) ==
    \E i \in 1..(Len(t) - Len(sub) + 1) : SubSeq(t, i, i + Len(sub) - 1) = sub

\* what is left of the subject is the whole subject, or what follows a
\* leading tag that its corresponding closer ends
OnlyMatchedTagRemoved(subject, rest) ==
    \/ rest = Strip(subject)
    \/ /\ subject # <<>>
       /\ subject[1] \in TagOpeners
       /\ \E k \in 2..Len(subject) :
             /\ subject[k] = Closer(subject[1])
             /\ rest = Strip(SubSeq(subject, k + 1, Len(subject)))

\* C11: for the sample subject and every summary the prompt returned by
\* build_image_prompt does not contain the tag of the subject, and for every
\* subject only a leading tag opened by "[", a left lenticular bracket or "("
\* and closed by the corresponding closer is removed.
C11_PromptTagStripped ==
    pc = "returned" =>
        /\ ret = Return(build_image_prompt(arg.subject, arg.summary))
        /\ arg.subject = TechSubject => ~Contains(ret.val, TechTag)
        /\ OnlyMatchedTagRemoved(arg.subject, clean_subject(arg.subject))

====
